---- MODULE Spec2Model ----
(***************************************************************************)
(* Model of the request gate of mindbridge-nigeria:                        *)
(*   - RateLimiter (src/src/lib/rate-limiter.ts): the in-memory fixed      *)
(*     window store, check, cleanup, and the withRateLimit wrapper;        *)
(*   - middleware (src/middleware.ts): the global rate limit, the          *)
(*     auth/role gate and the query screening.                             *)
(* Time is Date.now() in milliseconds.                                     *)
(***************************************************************************)
EXTENDS Integers, Sequences, FiniteSets, Bags, TLC

VARIABLES
    now,          \* Date.now()
    store,        \* RateLimiter.store: identifier -> {count, resetTime}
    limit,        \* the policy's limit (check's 2nd argument / options.limit)
    windowMs,     \* the policy's window (check's 3rd argument / options.windowMs)
    last,         \* what the most recent check call saw and returned
    gWin,         \* history: per key, the current window by the clock alone
    createdAt,    \* history: per key, when its counter was last started at 1
    allowedAt,    \* history: per key, the times of its recent allowed checks
    env,          \* process.env.NODE_ENV
    disabled,     \* process.env.DISABLE_RATE_LIMIT === 'true'
    inflight,     \* wrapper calls suspended at `await handler(request)`
    wresp,        \* the response the wrapper returned last
    rateLimitMap, \* middleware.ts: key -> {count, lastRequest}
    resp,         \* the response the middleware returned last
    sentAt,       \* history: per key and time, the /api/ requests sent
    healthRateLimitMap, \* health/route.ts rateLimitMap: key -> {count, timestamp}
    cachedHealthResult, \* health/route.ts: <<>> for null, else <<the cached body>>
    lastHealthCheck,    \* health/route.ts
    skipDbCheck,        \* process.env.SKIP_DB_CHECK === 'true'
    pending,            \* GET /api/health calls suspended on the database check
    hresp,              \* what the latest step of GET /api/health produced
    hWin,               \* history: per key, the current 60-second window
    cleanupInterval,    \* RateLimiter.cleanupInterval: the timer of the sweeper
    noSweep,            \* history: the store of the same calls with no cleanup run
    lastNoSweep,        \* history: what the latest check returned on noSweep
    alone,              \* history: per route, the store of its own calls alone
    rlast,              \* what the latest call through a wrapped route returned
    registrationAttempts, \* therapists/route.ts: ip -> {count, lastAttempt}
    users,              \* db.collection('users'): _id -> document
    therapists,         \* db.collection('therapists'): _id -> document
    regPending,         \* POST register calls suspended on a database await
    rresp,              \* what the latest step of POST register produced
    regWin,             \* history: per ip, the current one-hour window
    verifiedOk,         \* history: the _ids a verify_therapist action matched
    aresp,              \* what the latest POST /api/admin returned
    adminRateLimit,     \* the admin route: token.sub -> {count, lastRequest}
    oidCounter          \* the ObjectIds the driver has generated for inserts

limiterVars == <<now, store, limit, windowMs, last, gWin, createdAt, allowedAt>>
wrapVars == <<env, disabled, inflight, wresp>>
gateVars == <<rateLimitMap, resp, sentAt>>
healthVars == <<healthRateLimitMap, cachedHealthResult, lastHealthCheck,
                skipDbCheck, pending, hresp, hWin>>
twinVars == <<noSweep, lastNoSweep>>
routeVars == <<alone, rlast>>
acctVars == <<registrationAttempts, users, therapists, regPending, rresp,
              regWin, verifiedOk, aresp, adminRateLimit, oidCounter>>
vars == <<limiterVars, wrapVars, gateVars, healthVars, cleanupInterval,
          twinVars, routeVars, acctVars>>

(***************************************************************************)
(* Bounds of the model.                                                    *)
(***************************************************************************)
MaxTime == 5
MaxLimit == 2
MaxWindow == 2
MaxCalls == 4
MaxInflight == 2

\* Client identifiers, as getClientIdentifier returns them.
Keys == {"1.2.3.4", "unknown"}

Max(a, b) == IF a >= b THEN a ELSE b
Min(a, b) == IF a <= b THEN a ELSE b

\* this.store[identifier] = entry
Put(st, k, e) == [x \in DOMAIN st \cup {k} |-> IF x = k THEN e ELSE st[x]]

\* store = {} / new Map()
Empty == [x \in {} |-> 0]

(***************************************************************************)
(* RateLimiter.check(identifier, limit, windowMs) at time t on store st:   *)
(* the store it leaves, the result it returns, and whether it stored a new *)
(* entry (the first branch).                                               *)
(***************************************************************************)
check_gt(st, identifier, lim, win, t) ==
    IF identifier \notin DOMAIN st \/ st[identifier].resetTime < t
    THEN [store   |-> Put(st, identifier, [count |-> 1, resetTime |-> t + win]),
          result  |-> [allowed |-> TRUE, remaining |-> lim - 1, resetTime |-> t + win],
          created |-> TRUE]
    ELSE IF st[identifier].count > lim
    THEN [store   |-> st,
          result  |-> [allowed |-> FALSE, remaining |-> 0,
                       resetTime |-> st[identifier].resetTime],
          created |-> FALSE]
    ELSE [store   |-> [st EXCEPT ![identifier].count = @ + 1],
          result  |-> [allowed |-> TRUE,
                       remaining |-> lim - (st[identifier].count + 1),
                       resetTime |-> st[identifier].resetTime],
          created |-> FALSE]

check_denied_counts(st, identifier, lim, win, t) ==
    IF identifier \notin DOMAIN st \/ st[identifier].resetTime < t
    THEN [store   |-> Put(st, identifier, [count |-> 1, resetTime |-> t + win]),
          result  |-> [allowed |-> TRUE, remaining |-> lim - 1, resetTime |-> t + win],
          created |-> TRUE]
    ELSE IF st[identifier].count >= lim
    THEN [store   |-> [st EXCEPT ![identifier].count = @ + 1],
          result  |-> [allowed |-> FALSE, remaining |-> 0,
                       resetTime |-> st[identifier].resetTime],
          created |-> FALSE]
    ELSE [store   |-> [st EXCEPT ![identifier].count = @ + 1],
          result  |-> [allowed |-> TRUE,
                       remaining |-> lim - (st[identifier].count + 1),
                       resetTime |-> st[identifier].resetTime],
          created |-> FALSE]

check_sliding(st, identifier, lim, win, t) ==
    IF identifier \notin DOMAIN st \/ st[identifier].resetTime < t
    THEN [store   |-> Put(st, identifier, [count |-> 1, resetTime |-> t + win]),
          result  |-> [allowed |-> TRUE, remaining |-> lim - 1, resetTime |-> t + win],
          created |-> TRUE]
    ELSE IF st[identifier].count >= lim
    THEN [store   |-> st,
          result  |-> [allowed |-> FALSE, remaining |-> 0,
                       resetTime |-> st[identifier].resetTime],
          created |-> FALSE]
    ELSE [store   |-> [st EXCEPT ![identifier] =
                          [count |-> @.count + 1, resetTime |-> t + win]],
          result  |-> [allowed |-> TRUE,
                       remaining |-> lim - (st[identifier].count + 1),
                       resetTime |-> t + win],
          created |-> FALSE]

check_no_expiry(st, identifier, lim, win, t) ==
    IF identifier \notin DOMAIN st
    THEN [store   |-> Put(st, identifier, [count |-> 1, resetTime |-> t + win]),
          result  |-> [allowed |-> TRUE, remaining |-> lim - 1, resetTime |-> t + win],
          created |-> TRUE]
    ELSE IF st[identifier].count >= lim
    THEN [store   |-> st,
          result  |-> [allowed |-> FALSE, remaining |-> 0,
                       resetTime |-> st[identifier].resetTime],
          created |-> FALSE]
    ELSE [store   |-> [st EXCEPT ![identifier].count = @ + 1],
          result  |-> [allowed |-> TRUE,
                       remaining |-> lim - (st[identifier].count + 1),
                       resetTime |-> st[identifier].resetTime],
          created |-> FALSE]

check_remaining_stale(st, identifier, lim, win, t) ==
    IF identifier \notin DOMAIN st \/ st[identifier].resetTime < t
    THEN [store   |-> Put(st, identifier, [count |-> 1, resetTime |-> t + win]),
          result  |-> [allowed |-> TRUE, remaining |-> lim - 1, resetTime |-> t + win],
          created |-> TRUE]
    ELSE IF st[identifier].count >= lim
    THEN [store   |-> st,
          result  |-> [allowed |-> FALSE, remaining |-> 0,
                       resetTime |-> st[identifier].resetTime],
          created |-> FALSE]
    ELSE [store   |-> [st EXCEPT ![identifier].count = @ + 1],
          result  |-> [allowed |-> TRUE,
                       remaining |-> lim - st[identifier].count,
                       resetTime |-> st[identifier].resetTime],
          created |-> FALSE]

check(st, identifier, lim, win, t) ==
    IF identifier \notin DOMAIN st \/ st[identifier].resetTime < t
    THEN [store   |-> Put(st, identifier, [count |-> 1, resetTime |-> t + win]),
          result  |-> [allowed |-> TRUE, remaining |-> lim - 1, resetTime |-> t + win],
          created |-> TRUE]
    ELSE IF st[identifier].count >= lim
    THEN [store   |-> st,
          result  |-> [allowed |-> FALSE, remaining |-> 0,
                       resetTime |-> st[identifier].resetTime],
          created |-> FALSE]
    ELSE [store   |-> [st EXCEPT ![identifier].count = @ + 1],
          result  |-> [allowed |-> TRUE,
                       remaining |-> lim - (st[identifier].count + 1),
                       resetTime |-> st[identifier].resetTime],
          created |-> FALSE]

cleanup_le(st, t) ==
    [x \in {k \in DOMAIN st : ~(st[k].resetTime <= t)} |-> st[x]]

cleanup_gt(st, t) ==
    [x \in {k \in DOMAIN st : ~(st[k].resetTime > t)} |-> st[x]]

\* RateLimiter.cleanup() at time t: the store it leaves.
cleanup(st, t) ==
    [x \in {k \in DOMAIN st : ~(st[k].resetTime < t)} |-> st[x]]

(***************************************************************************)
(* History of the calls, kept by the clock alone and never read by the     *)
(* operations: a key's window opens with the first call made when the key  *)
(* has no window or its window's reset time has passed, and lasts win ms.  *)
(***************************************************************************)
InWindow(g, k, t) == k \in DOMAIN g /\ t <= g[k].resetAt

Observe(g, k, win, t, allowed) ==
    IF InWindow(g, k, t)
    THEN [g EXCEPT ![k].calls = @ + 1,
                   ![k].allowed = @ + (IF allowed THEN 1 ELSE 0)]
    ELSE Put(g, k, [start |-> t, resetAt |-> t + win, calls |-> 1,
                    allowed |-> IF allowed THEN 1 ELSE 0])

\* The allowed checks of key k that lie within windowMs before time t: the
\* ones a time span of length windowMs ending at t or later can still hold.
Recent(a, k, t) ==
    IF k \in DOMAIN a
    THEN SelectSeq(a[k], LAMBDA u : u >= t - windowMs)
    ELSE <<>>

NoLast ==
    [op |-> "none", key |-> "", allowed |-> FALSE, remaining |-> 0,
     resetTime |-> 0, created |-> FALSE, pre |-> <<>>]

\* No response yet (wrapper).
NoResponse ==
    [status |-> 0, key |-> "", at |-> 0, retryAfter |-> 0, retryAfterHeader |-> 0,
     rlLimit |-> -1, rlRemaining |-> -1, rlReset |-> -1]

\* No response yet (middleware).
NoResp ==
    [kind |-> "none", status |-> 0, location |-> "", retryAfter |-> -1,
     path |-> <<>>,
     token |-> [valid |-> FALSE, role |-> ""], query |-> <<>>, key |-> "",
     counted |-> FALSE, tokenVerified |-> FALSE]

\* The entry of k as a sequence: <<>> when the store has none.
EntryOf(st, k) == IF k \in DOMAIN st THEN <<st[k]>> ELSE <<>>

\* setInterval(callback, 60000) of the constructor: the timer is active, its
\* callback is due at time due, and ran holds the times it has run at.
SWEEP_INTERVAL == 60000
Interval(due) == [active |-> TRUE, due |-> due, ran |-> {}]

\* health/route.ts at module load; it takes no step outside SpecHealth; the
\* sweeper of the RateLimiter is timed in SpecSweep only.
NoHealthResponse ==
    [op |-> "none", key |-> "", status |-> 0, retryAfter |-> -1, cached |-> FALSE,
     check |-> "", body |-> [status |-> "", database |-> ""]]

HealthIdle ==
    /\ healthRateLimitMap = Empty
    /\ cachedHealthResult = <<>>
    /\ lastHealthCheck = 0
    /\ skipDbCheck = FALSE
    /\ pending = EmptyBag
    /\ hresp = NoHealthResponse
    /\ hWin = Empty
    /\ cleanupInterval = Interval(SWEEP_INTERVAL)

\* No check has returned on the store that is never swept.
NoDecision == [allowed |-> FALSE, remaining |-> -1, resetTime |-> -1]
NoTwin == [result |-> NoDecision, pre |-> <<>>]

\* No call through a wrapped route has returned.
NoRouteLast == [route |-> "", key |-> "", shared |-> NoDecision,
                alone |-> NoDecision]

\* POST register has produced nothing yet.
NoRegResponse == [op |-> "none", key |-> "", status |-> 0, retryAfter |-> -1,
                  email |-> "", userType |-> "", id |-> "", user |-> <<>>,
                  existed |-> FALSE]

\* POST /api/admin has returned nothing yet.
NoAdminResponse == [status |-> 0, action |-> "", userId |-> "", sub |-> "",
                    role |-> "", usersKept |-> TRUE]

\* The state of the parts a specification leaves alone: no call through a
\* wrapped route, no registration and no admin action has been made.
CallsIdle ==
    /\ noSweep = Empty
    /\ lastNoSweep = NoTwin
    /\ alone = Empty
    /\ rlast = NoRouteLast

RestIdle ==
    /\ CallsIdle
    /\ registrationAttempts = Empty
    /\ users = Empty
    /\ therapists = Empty
    /\ regPending = EmptyBag
    /\ rresp = NoRegResponse
    /\ regWin = Empty
    /\ verifiedOk = {}
    /\ aresp = NoAdminResponse
    /\ adminRateLimit = Empty
    /\ oidCounter = 0

Init ==
    /\ now = 0
    /\ store = Empty
    /\ limit \in 1..MaxLimit
    /\ windowMs \in 1..MaxWindow
    /\ last = NoLast
    /\ gWin = Empty
    /\ createdAt = Empty
    /\ allowedAt = Empty
    /\ env = "production"
    /\ disabled = FALSE
    /\ inflight = EmptyBag
    /\ wresp = NoResponse
    /\ rateLimitMap = Empty
    /\ resp = NoResp
    /\ sentAt = Empty
    /\ HealthIdle
    /\ RestIdle

\* One call rateLimiter.check(k, limit, windowMs).
Check(k) ==
    /\ InWindow(gWin, k, now) => gWin[k].calls < MaxCalls
    /\ LET r == check(store, k, limit, windowMs, now) IN
        /\ store' = r.store
        /\ last' = [op |-> "check", key |-> k, allowed |-> r.result.allowed,
                    remaining |-> r.result.remaining,
                    resetTime |-> r.result.resetTime,
                    created |-> r.created, pre |-> EntryOf(store, k)]
        /\ gWin' = Observe(gWin, k, windowMs, now, r.result.allowed)
        /\ createdAt' = IF r.created THEN Put(createdAt, k, now) ELSE createdAt
        /\ allowedAt' = IF r.result.allowed
                        THEN Put(allowedAt, k, Append(Recent(allowedAt, k, now), now))
                        ELSE allowedAt
    /\ UNCHANGED <<now, limit, windowMs, wrapVars, gateVars, healthVars, cleanupInterval,
                 twinVars, routeVars, acctVars>>

\* The setInterval callback of the constructor: this.cleanup().
Cleanup ==
    /\ store' = cleanup(store, now)
    /\ last' = [NoLast EXCEPT !.op = "cleanup"]
    /\ wresp' = NoResponse
    /\ UNCHANGED <<now, limit, windowMs, gWin, createdAt, allowedAt, inflight, env,
                   disabled, gateVars, healthVars, cleanupInterval,
                 twinVars, routeVars, acctVars>>

\* The clock advances.
Tick ==
    /\ now < MaxTime
    /\ now' = now + 1
    /\ last' = NoLast
    /\ wresp' = NoResponse
    /\ allowedAt' = [k \in DOMAIN allowedAt |-> Recent(allowedAt, k, now + 1)]
    /\ UNCHANGED <<store, limit, windowMs, gWin, createdAt, inflight, env, disabled,
                   gateVars, healthVars, cleanupInterval,
                 twinVars, routeVars, acctVars>>

Next ==
    \/ \E k \in Keys : Check(k)
    \/ Cleanup
    \/ Tick

Spec == Init /\ [][Next]_vars

(***************************************************************************)
(* withRateLimit(handler, {limit, windowMs}): the wrapper it returns.      *)
(***************************************************************************)
DEV_MIN_LIMIT == 200
DEV_MAX_WINDOW == 30000

\* Math.ceil(a / b) for b > 0
CeilDiv(a, b) == -((-a) \div b)

\* What the clock may have advanced by, in ms, when Date.now() is read again
\* within one synchronous run of the wrapper.
ClockSteps == {0, 1}

\* The early return of the wrapper: rate limiting is skipped.
RateLimitSkipped == env = "test" \/ disabled

devLimit == IF env = "development" THEN Max(limit * 3, DEV_MIN_LIMIT) ELSE limit
devWindow == IF env = "development" THEN Min(windowMs, DEV_MAX_WINDOW) ELSE windowMs

(***************************************************************************)
(* Request headers: x-forwarded-for as the list its split(',') gives (<<>>  *)
(* when the header is absent), x-real-ip and cf-connecting-ip as strings   *)
(* ("" when absent).  The sample values carry no surrounding blanks, so    *)
(* trim() leaves them as they are.                                         *)
(***************************************************************************)
Headers(forwarded, realIp, cfConnectingIp) ==
    [forwarded |-> forwarded, realIp |-> realIp, cfConnectingIp |-> cfConnectingIp]

\* RateLimiter.getClientIdentifier(request)
getClientIdentifier(h) ==
    LET first == IF h.forwarded = <<>> THEN "" ELSE h.forwarded[1]
        ip == IF first # "" THEN first
              ELSE IF h.realIp # "" THEN h.realIp
              ELSE h.cfConnectingIp
    IN IF ip = "" THEN "unknown" ELSE ip

\* The requests of the client the wrapper model follows: the entries of
\* different identifiers do not interact (Spec runs check on two).
WrapRequests ==
    { Headers(<<"1.2.3.4", "10.0.0.1">>, "10.0.0.2", ""),
      Headers(<<>>, "1.2.3.4", "10.0.0.3"),
      Headers(<<"">>, "", "1.2.3.4") }

\* The suspended calls, as a bag: each holds what the wrapper's closure holds.
Suspended(k, limited, remaining, resetTime) ==
    [key |-> k, limited |-> limited, remaining |-> remaining,
     resetTime |-> resetTime]

InitWrap ==
    /\ now = 0
    /\ store = Empty
    /\ limit \in 1..MaxLimit
    /\ windowMs \in 1..MaxWindow
    /\ last = NoLast
    /\ gWin = Empty
    /\ createdAt = Empty
    /\ allowedAt = Empty
    /\ env \in {"production", "development", "test"}
    /\ disabled \in BOOLEAN
    /\ inflight = EmptyBag
    /\ wresp = NoResponse
    /\ rateLimitMap = Empty
    /\ resp = NoResp
    /\ sentAt = Empty
    /\ HealthIdle
    /\ RestIdle

\* The wrapper is called with a request of client k and runs to its first
\* suspension: with rate limiting skipped it invokes the handler at once.
WrapCallSkipped(k) ==
    /\ RateLimitSkipped
    /\ BagCardinality(inflight) < MaxInflight
    /\ InWindow(gWin, k, now) => gWin[k].calls < MaxCalls
    /\ inflight' = inflight (+) SetToBag({Suspended(k, FALSE, -1, -1)})
    /\ gWin' = Observe(gWin, k, devWindow, now, TRUE)
    /\ last' = NoLast
    /\ wresp' = NoResponse
    /\ UNCHANGED <<now, store, limit, windowMs, createdAt, allowedAt, env, disabled,
                   gateVars, healthVars, cleanupInterval,
                 twinVars, routeVars, acctVars>>

WrapCallDenied_invokes(k) ==
    /\ ~RateLimitSkipped
    /\ BagCardinality(inflight) < MaxInflight
    /\ InWindow(gWin, k, now) => gWin[k].calls < MaxCalls
    /\ LET r == check(store, k, devLimit, devWindow, now) IN
        /\ ~r.result.allowed
        /\ store' = r.store
        /\ last' = NoLast
        /\ createdAt' = IF r.created THEN Put(createdAt, k, now) ELSE createdAt
        /\ \E d1, d2 \in ClockSteps :
            /\ d1 <= d2
            /\ now + d2 <= MaxTime
            /\ now' = now + d2
            /\ wresp' = [status |-> 429, key |-> k, at |-> now,
                         retryAfter |->
                             CeilDiv(r.result.resetTime - (now + d1), 1000),
                         retryAfterHeader |->
                             CeilDiv(r.result.resetTime - (now + d2), 1000),
                         rlLimit |-> devLimit, rlRemaining |-> 0,
                         rlReset |-> r.result.resetTime]
        /\ inflight' = inflight (+) SetToBag({Suspended(k, TRUE,
                                    r.result.remaining, r.result.resetTime)})
    /\ gWin' = Observe(gWin, k, devWindow, now, FALSE)
    /\ UNCHANGED <<limit, windowMs, allowedAt, env, disabled, gateVars,
                   healthVars, cleanupInterval,
                 twinVars, routeVars, acctVars>>

\* The wrapper is called and check denies: the 429 is returned, the handler
\* is not invoked.  The body's retryAfter and the Retry-After header each
\* read Date.now() again, after the read check has decided on.
WrapCallDenied(k) ==
    /\ ~RateLimitSkipped
    /\ InWindow(gWin, k, now) => gWin[k].calls < MaxCalls
    /\ LET r == check(store, k, devLimit, devWindow, now) IN
        /\ ~r.result.allowed
        /\ store' = r.store
        /\ last' = NoLast
        /\ createdAt' = IF r.created THEN Put(createdAt, k, now) ELSE createdAt
        /\ \E d1, d2 \in ClockSteps :
            /\ d1 <= d2
            /\ now + d2 <= MaxTime
            /\ now' = now + d2
            /\ wresp' = [status |-> 429, key |-> k, at |-> now,
                         retryAfter |->
                             CeilDiv(r.result.resetTime - (now + d1), 1000),
                         retryAfterHeader |->
                             CeilDiv(r.result.resetTime - (now + d2), 1000),
                         rlLimit |-> devLimit, rlRemaining |-> 0,
                         rlReset |-> r.result.resetTime]
    /\ gWin' = Observe(gWin, k, devWindow, now, FALSE)
    /\ UNCHANGED <<limit, windowMs, allowedAt, env, disabled, inflight, gateVars,
                   healthVars, cleanupInterval,
                 twinVars, routeVars, acctVars>>

\* The wrapper is called and check allows: the handler is invoked and the
\* wrapper suspends on it, holding the result of check.
WrapCallAllowed(k) ==
    /\ ~RateLimitSkipped
    /\ BagCardinality(inflight) < MaxInflight
    /\ InWindow(gWin, k, now) => gWin[k].calls < MaxCalls
    /\ LET r == check(store, k, devLimit, devWindow, now) IN
        /\ r.result.allowed
        /\ store' = r.store
        /\ last' = NoLast
        /\ createdAt' = IF r.created THEN Put(createdAt, k, now) ELSE createdAt
        /\ inflight' = inflight (+) SetToBag({Suspended(k, TRUE,
                                    r.result.remaining, r.result.resetTime)})
    /\ gWin' = Observe(gWin, k, devWindow, now, TRUE)
    /\ wresp' = NoResponse
    /\ UNCHANGED <<now, limit, windowMs, allowedAt, env, disabled, gateVars,
                   healthVars, cleanupInterval,
                 twinVars, routeVars, acctVars>>

\* The handler of a suspended call c resolves: the wrapper sets the
\* rate-limit headers (when it had called check) and returns the response.
HandlerReturn(c) ==
    /\ BagIn(c, inflight)
    /\ wresp' = IF c.limited
                THEN [status |-> 200, key |-> c.key, at |-> now, retryAfter |-> 0,
                      retryAfterHeader |-> 0,
                      rlLimit |-> devLimit, rlRemaining |-> c.remaining,
                      rlReset |-> c.resetTime]
                ELSE [status |-> 200, key |-> c.key, at |-> now, retryAfter |-> 0,
                      retryAfterHeader |-> 0,
                      rlLimit |-> -1, rlRemaining |-> -1, rlReset |-> -1]
    /\ inflight' = inflight (-) SetToBag({c})
    /\ last' = NoLast
    /\ UNCHANGED <<now, store, limit, windowMs, gWin, createdAt, allowedAt, env,
                   disabled, gateVars, healthVars, cleanupInterval,
                 twinVars, routeVars, acctVars>>

NextWrap ==
    \/ \E h \in WrapRequests : WrapCallSkipped(getClientIdentifier(h))
    \/ \E h \in WrapRequests : WrapCallDenied(getClientIdentifier(h))
    \/ \E h \in WrapRequests : WrapCallAllowed(getClientIdentifier(h))
    \/ \E c \in BagToSet(inflight) : HandlerReturn(c)
    \/ Cleanup
    \/ Tick

SpecWrap == InitWrap /\ [][NextWrap]_vars

(***************************************************************************)
(* middleware.ts: the global gate.                                         *)
(* A path is the sequence of the pieces the route prefixes cut it into, so *)
(* that startsWith is the prefix test on sequences.                        *)
(***************************************************************************)
RATE_LIMIT_WINDOW == 60 * 1000
RATE_LIMIT_MAX_REQUESTS == 100

MaxGateTime == 60001
MaxGateCount == 102

\* pathname.startsWith(prefix)
StartsWith(path, prefix) ==
    Len(prefix) <= Len(path) /\ SubSeq(path, 1, Len(prefix)) = prefix

API_PREFIX == <<"/api", "/">>

protectedRoutes_no_admin ==
    { <<"/dashboard">>,
      <<"/api", "/", "users", "/", "profile">>,
      <<"/api", "/", "sessions">>,
      <<"/api", "/", "messages">>,
      <<"/api", "/", "mood-entries">> }

protectedRoutes ==
    { <<"/dashboard">>,
      <<"/api", "/", "users", "/", "profile">>,
      <<"/api", "/", "admin">>,
      <<"/api", "/", "sessions">>,
      <<"/api", "/", "messages">>,
      <<"/api", "/", "mood-entries">> }

adminRoutes_no_api ==
    { <<"/dashboard", "/", "admin">> }

adminRoutes ==
    { <<"/api", "/", "admin">>,
      <<"/dashboard", "/", "admin">> }

\* getRateLimitKey(request)
getRateLimitKey(h) ==
    IF h.forwarded # <<>> THEN h.forwarded[1]
    ELSE IF h.realIp # "" THEN h.realIp
    ELSE "anonymous"

\* isRateLimited(key) at time t on map m: the map it leaves and its answer.
isRateLimited(m, key, t) ==
    IF key \notin DOMAIN m
    THEN [map |-> Put(m, key, [count |-> 1, lastRequest |-> t]), limited |-> FALSE]
    ELSE IF t - m[key].lastRequest > RATE_LIMIT_WINDOW
    THEN [map |-> Put(m, key, [count |-> 1, lastRequest |-> t]), limited |-> FALSE]
    ELSE [map |-> [m EXCEPT ![key] = [count |-> @.count + 1, lastRequest |-> t]],
          limited |-> m[key].count + 1 > RATE_LIMIT_MAX_REQUESTS]

(***************************************************************************)
(* suspiciousPatterns, by their outcome on the sample query values         *)
(* (pattern.test(value), evaluated by hand from the three expressions):    *)
(*   1 quoted text, the same quote again, then an SQL keyword and a blank  *)
(*   2 a path-traversal sequence                                           *)
(*   3 a script tag, script URL or inline handler                          *)
(***************************************************************************)
suspiciousPatterns == {1, 2, 3}

PatternTest(pattern, value) ==
    CASE value = "anxiety" -> FALSE
      [] value = "'; DROP TABLE users; --" -> FALSE
      [] value = "'a' OR 1=1" -> pattern = 1
      [] value = "../etc/passwd" -> pattern = 2
      [] value = "<script>alert(1)</script>" -> pattern = 3

\* The two nested loops over searchParams.entries() and suspiciousPatterns.
SuspiciousQuery(query) ==
    \E i \in 1..Len(query) : \E pattern \in suspiciousPatterns :
        PatternTest(pattern, query[i])

getToken_accept_invalid(req) == <<req.token>>

\* getToken({req, secret}): <<>> for null, else <<token>>.
getToken(req) == IF req.token.valid THEN <<req.token>> ELSE <<>>

\* The responses of the middleware; retryAfter is -1 when the body has none.
Json(status) ==
    [kind |-> "json", status |-> status, location |-> "", retryAfter |-> -1]
Redirect(location) ==
    [kind |-> "redirect", status |-> 307, location |-> location, retryAfter |-> -1]
PassThrough ==
    [kind |-> "next", status |-> 200, location |-> "", retryAfter |-> -1]

\* The 429 of the rate limit: retryAfter: 60 and 'Retry-After': '60'.
RETRY_AFTER == 60
RateLimitExceeded ==
    [kind |-> "json", status |-> 429, location |-> "", retryAfter |-> RETRY_AFTER]

(***************************************************************************)
(* middleware(request) at time t on map m: the map it leaves, the response *)
(* it returns, and which of isRateLimited and getToken it called.          *)
(***************************************************************************)
middleware_screen_first(m, req, t) ==
    LET api == StartsWith(req.path, API_PREFIX)
        rl == IF api THEN isRateLimited(m, getRateLimitKey(req.headers), t)
              ELSE [map |-> m, limited |-> FALSE]
        isProtectedRoute == \E route \in protectedRoutes : StartsWith(req.path, route)
        isAdminRoute == \E route \in adminRoutes : StartsWith(req.path, route)
        token == getToken(req)
    IN  IF SuspiciousQuery(req.query)
        THEN [map |-> m, response |-> Json(400), counted |-> FALSE,
              tokenVerified |-> FALSE]
        ELSE IF rl.limited
        THEN [map |-> rl.map, response |-> RateLimitExceeded, counted |-> api,
              tokenVerified |-> FALSE]
        ELSE IF isProtectedRoute /\ token = <<>>
        THEN [map |-> rl.map,
              response |-> IF api THEN Json(401) ELSE Redirect("/login"),
              counted |-> api, tokenVerified |-> TRUE]
        ELSE IF isProtectedRoute /\ isAdminRoute /\ token[1].role # "admin"
        THEN [map |-> rl.map,
              response |-> IF api THEN Json(403) ELSE Redirect("/dashboard"),
              counted |-> api, tokenVerified |-> TRUE]
        ELSE [map |-> rl.map, response |-> PassThrough, counted |-> api,
              tokenVerified |-> isProtectedRoute]

middleware(m, req, t) ==
    LET api == StartsWith(req.path, API_PREFIX)
        rl == IF api THEN isRateLimited(m, getRateLimitKey(req.headers), t)
              ELSE [map |-> m, limited |-> FALSE]
        isProtectedRoute == \E route \in protectedRoutes : StartsWith(req.path, route)
        isAdminRoute == \E route \in adminRoutes : StartsWith(req.path, route)
        token == getToken(req)
    IN  IF rl.limited
        THEN [map |-> rl.map, response |-> RateLimitExceeded, counted |-> api,
              tokenVerified |-> FALSE]
        ELSE IF isProtectedRoute /\ token = <<>>
        THEN [map |-> rl.map,
              response |-> IF api THEN Json(401) ELSE Redirect("/login"),
              counted |-> api, tokenVerified |-> TRUE]
        ELSE IF isProtectedRoute /\ isAdminRoute /\ token[1].role # "admin"
        THEN [map |-> rl.map,
              response |-> IF api THEN Json(403) ELSE Redirect("/dashboard"),
              counted |-> api, tokenVerified |-> TRUE]
        ELSE IF SuspiciousQuery(req.query)
        THEN [map |-> rl.map, response |-> Json(400), counted |-> api,
              tokenVerified |-> isProtectedRoute]
        ELSE [map |-> rl.map, response |-> PassThrough, counted |-> api,
              tokenVerified |-> isProtectedRoute]

\* The requests the gate model sends.
GatePaths ==
    { <<"/api", "/", "admin", "/", "users">>,
      <<"/api", "/", "sessions">>,
      <<"/api", "/", "health">>,
      <<"/dashboard">>,
      <<"/dashboard", "/", "admin">>,
      <<"/login">> }

GateTokens ==
    { [valid |-> FALSE, role |-> "admin"],
      [valid |-> TRUE, role |-> "user"],
      [valid |-> TRUE, role |-> "admin"] }

GateQueries ==
    { <<"anxiety", "'; DROP TABLE users; --">>,
      <<"anxiety", "../etc/passwd">> }

\* One client: the counters of different keys do not interact.
GateHeaders ==
    { Headers(<<"1.2.3.4", "10.0.0.1">>, "10.0.0.2", "") }

GateRequests ==
    [path : GatePaths, token : GateTokens, query : GateQueries,
     headers : GateHeaders]

GateSteps == {RATE_LIMIT_WINDOW, RATE_LIMIT_WINDOW + 1}

InitGate ==
    /\ now = 0
    /\ store = Empty
    /\ limit = 1
    /\ windowMs = 1
    /\ last = NoLast
    /\ gWin = Empty
    /\ createdAt = Empty
    /\ allowedAt = Empty
    /\ env = "production"
    /\ disabled = FALSE
    /\ inflight = EmptyBag
    /\ wresp = NoResponse
    /\ rateLimitMap = Empty
    /\ resp = NoResp
    /\ sentAt = Empty
    /\ HealthIdle
    /\ RestIdle

\* The middleware handles one request.
Handle(req) ==
    /\ LET key == getRateLimitKey(req.headers) IN
        (StartsWith(req.path, API_PREFIX) /\ key \in DOMAIN rateLimitMap)
            => rateLimitMap[key].count < MaxGateCount
    /\ LET r == middleware(rateLimitMap, req, now) IN
        /\ rateLimitMap' = r.map
        /\ createdAt' =
             IF r.counted /\ r.map[getRateLimitKey(req.headers)].count = 1
             THEN Put(createdAt, getRateLimitKey(req.headers), now)
             ELSE createdAt
        /\ resp' = [kind |-> r.response.kind, status |-> r.response.status,
                    location |-> r.response.location,
                    retryAfter |-> r.response.retryAfter, path |-> req.path,
                    token |-> req.token, query |-> req.query,
                    key |-> getRateLimitKey(req.headers),
                    counted |-> r.counted, tokenVerified |-> r.tokenVerified]
    /\ UNCHANGED <<now, store, limit, windowMs, last, gWin, allowedAt, wrapVars,
                   healthVars, cleanupInterval,
                 twinVars, routeVars, acctVars>>

GateRequest(req) == Handle(req) /\ UNCHANGED sentAt

\* The clock advances by d ms.
GateTick(d) ==
    /\ now + d <= MaxGateTime
    /\ now' = now + d
    /\ resp' = NoResp
    /\ UNCHANGED <<store, limit, windowMs, last, gWin, createdAt, allowedAt,
                   wrapVars, rateLimitMap, sentAt, healthVars, cleanupInterval,
                 twinVars, routeVars, acctVars>>

NextGate ==
    \/ \E req \in GateRequests : GateRequest(req)
    \/ \E d \in GateSteps : GateTick(d)

SpecGate == InitGate /\ [][NextGate]_vars

(***************************************************************************)
(* The global rate limit of the middleware over a longer time: one client  *)
(* sending /api/ requests that pass the auth gate and the screening, with  *)
(* the history of when it sent them.                                       *)
(***************************************************************************)
MaxRateTime == 120000
MaxSent == 102

RateRequests ==
    [path : { <<"/api", "/", "health">> },
     token : { [valid |-> TRUE, role |-> "user"] },
     query : { <<"anxiety", "'; DROP TABLE users; --">> },
     headers : GateHeaders]

\* One more request of key k at time t: the total, and the number per time.
Sent(h, k, t) ==
    LET old == IF k \in DOMAIN h THEN h[k] ELSE [total |-> 0, at |-> Empty]
        n == IF t \in DOMAIN old.at THEN old.at[t] ELSE 0
    IN Put(h, k, [total |-> old.total + 1, at |-> Put(old.at, t, n + 1)])

RateRequest(req) ==
    /\ LET key == getRateLimitKey(req.headers) IN
        key \in DOMAIN sentAt => sentAt[key].total < MaxSent
    /\ Handle(req)
    /\ sentAt' = Sent(sentAt, getRateLimitKey(req.headers), now)

RateTick(d) ==
    /\ now + d <= MaxRateTime
    /\ now' = now + d
    /\ resp' = NoResp
    /\ UNCHANGED <<store, limit, windowMs, last, gWin, createdAt, allowedAt,
                   wrapVars, rateLimitMap, sentAt, healthVars, cleanupInterval,
                 twinVars, routeVars, acctVars>>

NextRate ==
    \/ \E req \in RateRequests : RateRequest(req)
    \/ \E d \in GateSteps : RateTick(d)

SpecRate == InitGate /\ [][NextRate]_vars

(***************************************************************************)
(* GET /api/health (src/src/app/api/health/route.ts): its own rate limit,  *)
(* the cached result, and the database check it awaits.                    *)
(***************************************************************************)
CACHE_DURATION == 30000
RATE_LIMIT == 50
RATE_WINDOW == 60 * 1000

MaxHealthTime == 60000
MaxHealthCalls == 52
MaxPending == 2

HealthSteps == {29999, 30000}

\* getClientIp(request)
getClientIp(h) ==
    IF h.forwarded # <<>> /\ h.forwarded[1] # "" THEN h.forwarded[1]
    ELSE IF h.realIp # "" THEN h.realIp
    ELSE "unknown"

\* One client: the counters of different keys do not interact.
HealthRequests ==
    { Headers(<<"1.2.3.4", "10.0.0.1">>, "10.0.0.2", ""),
      Headers(<<>>, "1.2.3.4", "") }

\* The rate limiting check of GET at time t on map m: the map it leaves,
\* whether it answers 429, and the retryAfter of that answer.
healthRateLimit_gt(m, clientIp, t) ==
    IF clientIp \in DOMAIN m /\ t - m[clientIp].timestamp < RATE_WINDOW
    THEN IF m[clientIp].count > RATE_LIMIT
         THEN [map |-> m, limited |-> TRUE,
               retryAfter |->
                   CeilDiv(RATE_WINDOW - (t - m[clientIp].timestamp), 1000)]
         ELSE [map |-> [m EXCEPT ![clientIp].count = @ + 1], limited |-> FALSE,
               retryAfter |-> -1]
    ELSE [map |-> Put(m, clientIp, [count |-> 1, timestamp |-> t]),
          limited |-> FALSE, retryAfter |-> -1]

healthRateLimit(m, clientIp, t) ==
    IF clientIp \in DOMAIN m /\ t - m[clientIp].timestamp < RATE_WINDOW
    THEN IF m[clientIp].count >= RATE_LIMIT
         THEN [map |-> m, limited |-> TRUE,
               retryAfter |->
                   CeilDiv(RATE_WINDOW - (t - m[clientIp].timestamp), 1000)]
         ELSE [map |-> [m EXCEPT ![clientIp].count = @ + 1], limited |-> FALSE,
               retryAfter |-> -1]
    ELSE [map |-> Put(m, clientIp, [count |-> 1, timestamp |-> t]),
          limited |-> FALSE, retryAfter |-> -1]

\* healthStatus, by the two fields that depend on dbHealthy.
healthStatus(dbHealthy) ==
    [status |-> IF dbHealthy THEN "healthy" ELSE "unhealthy",
     database |-> IF dbHealthy THEN "up" ELSE "down"]

\* NextResponse.json(body) without a status answers 200.
cachedResponse(k, body) ==
    [op |-> "GET", key |-> k, status |-> 200, retryAfter |-> -1,
     cached |-> TRUE, check |-> "", body |-> body]

freshResponse(op, k, dbHealthy) ==
    [op |-> op, key |-> k, status |-> IF dbHealthy THEN 200 ELSE 503,
     retryAfter |-> -1, cached |-> FALSE, check |-> "",
     body |-> healthStatus(dbHealthy)]

\* How the race of the database check settles: checkDatabaseHealth resolved
\* with one of its three status values, or the 1 second timeout rejected.
DbOutcomes == {"healthy", "unhealthy", "degraded", "timeout"}

\* What the try block leaves in dbHealthy: the object checkDatabaseHealth
\* resolved to, or the false that the catch assigns.
raceValue(outcome) ==
    IF outcome = "timeout"
    THEN [type |-> "boolean", value |-> FALSE, status |-> ""]
    ELSE [type |-> "object", value |-> TRUE, status |-> outcome]

\* The truth value of v in `dbHealthy ? a : b`: every object is true.
Truthy(v) == IF v.type = "boolean" THEN v.value ELSE TRUE

\* The database check is left out: dbHealthy stays true.
DbCheckSkipped == env = "production" /\ skipDbCheck

\* History: the 60-second window of key k, opened by the first request made
\* when k has no window or its window is 60 seconds old.
InHealthWindow(g, k, t) == k \in DOMAIN g /\ t - g[k].start < 60000

ObserveHealth(g, k, t, admitted) ==
    IF InHealthWindow(g, k, t)
    THEN [g EXCEPT ![k].calls = @ + 1,
                   ![k].admitted = @ + (IF admitted THEN 1 ELSE 0)]
    ELSE Put(g, k, [start |-> t, calls |-> 1,
                    admitted |-> IF admitted THEN 1 ELSE 0])

InitHealth ==
    /\ now = 0
    /\ store = Empty
    /\ limit = 1
    /\ windowMs = 1
    /\ last = NoLast
    /\ gWin = Empty
    /\ createdAt = Empty
    /\ allowedAt = Empty
    /\ \E e \in { <<"production", TRUE>>, <<"production", FALSE>>,
                    <<"development", TRUE>> } :
            env = e[1] /\ skipDbCheck = e[2]
    /\ disabled = FALSE
    /\ inflight = EmptyBag
    /\ wresp = NoResponse
    /\ rateLimitMap = Empty
    /\ resp = NoResp
    /\ sentAt = Empty
    /\ healthRateLimitMap = Empty
    /\ cachedHealthResult = <<>>
    /\ lastHealthCheck = 0
    /\ pending = EmptyBag
    /\ hresp = NoHealthResponse
    /\ hWin = Empty
    /\ cleanupInterval = Interval(SWEEP_INTERVAL)
    /\ RestIdle

\* GET is called by client k and runs to its response or to the await of
\* the database check.
HealthGet(k) ==
    /\ InHealthWindow(hWin, k, now) => hWin[k].calls < MaxHealthCalls
    /\ LET rl == healthRateLimit(healthRateLimitMap, k, now) IN
        /\ healthRateLimitMap' = rl.map
        /\ hWin' = ObserveHealth(hWin, k, now, ~rl.limited)
        /\ IF rl.limited
           THEN /\ hresp' = [op |-> "GET", key |-> k, status |-> 429,
                             retryAfter |-> rl.retryAfter, cached |-> FALSE,
                             check |-> "",
                             body |-> [status |-> "", database |-> ""]]
                /\ UNCHANGED <<cachedHealthResult, lastHealthCheck, pending>>
           ELSE IF cachedHealthResult # <<>> /\ now - lastHealthCheck < CACHE_DURATION
           THEN /\ hresp' = cachedResponse(k, cachedHealthResult[1])
                /\ UNCHANGED <<cachedHealthResult, lastHealthCheck, pending>>
           ELSE IF DbCheckSkipped
           THEN /\ hresp' = freshResponse("GET", k, TRUE)
                /\ cachedHealthResult' = <<healthStatus(TRUE)>>
                /\ lastHealthCheck' = now
                /\ UNCHANGED pending
           ELSE /\ BagCardinality(pending) < MaxPending
                /\ pending' = pending (+) SetToBag({[key |-> k, now |-> now]})
                /\ hresp' = [NoHealthResponse EXCEPT !.op = "await", !.key = k]
                /\ UNCHANGED <<cachedHealthResult, lastHealthCheck>>
    /\ UNCHANGED <<limiterVars, wrapVars, gateVars, skipDbCheck, cleanupInterval,
                 twinVars, routeVars, acctVars>>

\* The race of checkDatabaseHealth() and the 1 second timeout settles for
\* the suspended call c.  checkDatabaseHealth never rejects: it resolves to
\* an object {status, responseTime, error?}, which is what dbHealthy then
\* holds; the catch assigns false when the timeout rejected first.
HealthDbCheckDone(c, outcome) ==
    /\ BagIn(c, pending)
    /\ pending' = pending (-) SetToBag({c})
    /\ LET dbHealthy == Truthy(raceValue(outcome)) IN
        /\ cachedHealthResult' = <<healthStatus(dbHealthy)>>
        /\ hresp' = [freshResponse("done", c.key, dbHealthy)
                        EXCEPT !.check = outcome]
    /\ lastHealthCheck' = c.now
    /\ UNCHANGED <<limiterVars, wrapVars, gateVars, healthRateLimitMap,
                   skipDbCheck, hWin, cleanupInterval,
                 twinVars, routeVars, acctVars>>

HealthTick(d) ==
    /\ now + d <= MaxHealthTime
    /\ now' = now + d
    /\ hresp' = NoHealthResponse
    /\ UNCHANGED <<store, limit, windowMs, last, gWin, createdAt, allowedAt,
                   wrapVars, gateVars, healthRateLimitMap, cachedHealthResult,
                   lastHealthCheck, skipDbCheck, pending, hWin, cleanupInterval,
                 twinVars, routeVars, acctVars>>

NextHealth ==
    \/ \E h \in HealthRequests : HealthGet(getClientIp(h))
    \/ \E c \in BagToSet(pending), outcome \in DbOutcomes :
            HealthDbCheckDone(c, outcome)
    \/ \E d \in HealthSteps : HealthTick(d)

SpecHealth == InitHealth /\ [][NextHealth]_vars

(***************************************************************************)
(* POST /api/test-utils/reset-rate-limit (src/unnamed/part_001) and        *)
(* RateLimiter.reset.                                                      *)
(***************************************************************************)
MaxRecent == 3
MaxResetTime == 1

reset_keep(st) == st

\* RateLimiter.reset(): the store it leaves.
reset(st) == Empty

InitReset ==
    /\ now = 0
    /\ store = Empty
    /\ limit \in 1..MaxLimit
    /\ windowMs \in 1..MaxWindow
    /\ last = NoLast
    /\ gWin = Empty
    /\ createdAt = Empty
    /\ allowedAt = Empty
    /\ env \in {"production", "development"}
    /\ disabled = FALSE
    /\ inflight = EmptyBag
    /\ wresp = NoResponse
    /\ rateLimitMap = Empty
    /\ resp = NoResp
    /\ sentAt = Empty
    /\ HealthIdle
    /\ RestIdle

\* The POST handler: 403 in production, else resetRateLimiter() and 200.
\* A reset closes every window of the history.
ResetPost ==
    /\ \A k \in DOMAIN allowedAt : Len(allowedAt[k]) < MaxRecent
    /\ IF env = "production"
       THEN /\ last' = [NoLast EXCEPT !.op = "reset403"]
            /\ UNCHANGED <<store, gWin>>
       ELSE /\ store' = reset(store)
            /\ gWin' = Empty
            /\ last' = [NoLast EXCEPT !.op = "reset200"]
    /\ UNCHANGED <<now, limit, windowMs, createdAt, allowedAt, wrapVars, gateVars,
                   healthVars, cleanupInterval,
                 twinVars, routeVars, acctVars>>

\* The clock advances.
ResetTick ==
    /\ now < MaxResetTime
    /\ now' = now + 1
    /\ last' = NoLast
    /\ allowedAt' = [k \in DOMAIN allowedAt |-> Recent(allowedAt, k, now + 1)]
    /\ UNCHANGED <<store, limit, windowMs, gWin, createdAt, wrapVars, gateVars,
                   healthVars, cleanupInterval,
                 twinVars, routeVars, acctVars>>

NextReset ==
    \/ \E k \in Keys : Check(k)
    \/ ResetPost
    \/ Cleanup
    \/ ResetTick

SpecReset == InitReset /\ [][NextReset]_vars

(***************************************************************************)
(* The sweeper in time: the constructor's setInterval runs cleanup every   *)
(* 60000 ms until destroy() clears it.  The clock moves over the instants  *)
(* around the entries' reset times and the timer's due times; a callback   *)
(* runs at its due time or up to SweepDelay later.                         *)
(***************************************************************************)
MaxSweepTime == 120002
SweepDelay == 1

SweepInstants ==
    {t \in {0, 1, 59999, 60000, 60001, 120000, 120001, 120002} : t <= MaxSweepTime}

SweepWindows == {59999, 60000}

InitSweep ==
    /\ now = 0
    /\ store = Empty
    /\ limit \in 1..MaxLimit
    /\ windowMs \in SweepWindows
    /\ last = NoLast
    /\ gWin = Empty
    /\ createdAt = Empty
    /\ allowedAt = Empty
    /\ env = "production"
    /\ disabled = FALSE
    /\ inflight = EmptyBag
    /\ wresp = NoResponse
    /\ rateLimitMap = Empty
    /\ resp = NoResp
    /\ sentAt = Empty
    /\ HealthIdle
    /\ RestIdle

\* A request: check(k, limit, windowMs), while two sweeps after the entry's
\* reset time still fit in the time the model covers.
SweepCheck(k) ==
    /\ now + windowMs + SWEEP_INTERVAL < MaxSweepTime
    /\ Check(k)

\* The timer's callback runs: this.cleanup(), and the timer is due again
\* one interval later.
SweepTimer ==
    /\ cleanupInterval.active
    /\ now >= cleanupInterval.due
    /\ store' = cleanup(store, now)
    /\ cleanupInterval' = [cleanupInterval EXCEPT !.due = now + SWEEP_INTERVAL,
                                                  !.ran = @ \cup {now}]
    /\ last' = [NoLast EXCEPT !.op = "cleanup"]
    /\ UNCHANGED <<now, limit, windowMs, gWin, createdAt, allowedAt, wrapVars,
                   gateVars, healthRateLimitMap, cachedHealthResult,
                   lastHealthCheck, skipDbCheck, pending, hresp, hWin,
                 twinVars, routeVars, acctVars>>

\* RateLimiter.destroy(): clearInterval(this.cleanupInterval).
Destroy ==
    /\ cleanupInterval.active
    /\ cleanupInterval' = [cleanupInterval EXCEPT !.active = FALSE]
    /\ last' = NoLast
    /\ UNCHANGED <<now, store, limit, windowMs, gWin, createdAt, allowedAt, wrapVars,
                   gateVars, healthRateLimitMap, cachedHealthResult,
                   lastHealthCheck, skipDbCheck, pending, hresp, hWin,
                 twinVars, routeVars, acctVars>>

\* The clock advances to instant t; a due callback is not delayed by more
\* than SweepDelay.
SweepClock(t) ==
    /\ t > now
    /\ cleanupInterval.active => t <= cleanupInterval.due + SweepDelay
    /\ now' = t
    /\ last' = NoLast
    /\ allowedAt' = [k \in DOMAIN allowedAt |-> Recent(allowedAt, k, t)]
    /\ UNCHANGED <<store, limit, windowMs, gWin, createdAt, wrapVars, gateVars,
                   healthVars, cleanupInterval,
                 twinVars, routeVars, acctVars>>

SweepClockAdvances == \E t \in SweepInstants : SweepClock(t)

NextSweep ==
    \/ \E k \in Keys : SweepCheck(k)
    \/ SweepTimer
    \/ Destroy
    \/ SweepClockAdvances

\* Time passes, and an active timer's callback runs once it is due.
SpecSweep ==
    /\ InitSweep
    /\ [][NextSweep]_vars
    /\ WF_vars(SweepTimer)
    /\ WF_vars(SweepClockAdvances)

(***************************************************************************)
(* Claims about RateLimiter.check and cleanup, under Spec.                 *)
(***************************************************************************)

\* C1: starting from no window for a key, the calls made before the window's
\* reset time are allowed up to the limit-th, and the (limit+1)-th call made
\* in the same window is denied.
C1_FirstLAllowedThenDenied ==
    (last.op = "check" /\ now < gWin[last.key].resetAt) =>
        /\ gWin[last.key].calls <= limit => last.allowed
        /\ gWin[last.key].calls = limit + 1 => ~last.allowed

C1_Witness ==
    /\ last.op = "check"
    /\ limit >= 2
    /\ now < gWin[last.key].resetAt
    /\ gWin[last.key].calls = limit + 1
    /\ gWin[last.key].allowed = limit
    /\ ~last.allowed

\* C2 (as claimed): a check made at a time equal to the stored resetTime is
\* allowed and leaves the entry {count: 1, resetTime: now + windowMs}.
C2_BoundaryStartsFreshWindow ==
    (last.op = "check" /\ last.pre # <<>> /\ last.pre[1].resetTime = now) =>
        /\ last.allowed
        /\ store[last.key] = [count |-> 1, resetTime |-> now + windowMs]

\* C4: a check that returns allowed = false leaves the whole store as it was.
C4_DeniedLeavesStore ==
    [][\A k \in Keys : (Check(k) /\ ~last'.allowed) => store' = store]_vars

C4_Witness ==
    /\ last.op = "check"
    /\ ~last.allowed
    /\ gWin[last.key].calls >= limit + 2
    /\ store[last.key].count = limit

\* C5: every stored entry has 1 <= count <= limit.
C5_CountWithinLimit ==
    \A k \in DOMAIN store : 1 <= store[k].count /\ store[k].count <= limit

C5_Witness ==
    /\ last.op = "check"
    /\ ~last.allowed
    /\ limit >= 2
    /\ \A k \in Keys : k \in DOMAIN store /\ store[k].count = limit

\* C6: a key's resetTime is never earlier than the time its entry was
\* created, and a step changes it (or creates the entry) only when check
\* finds the entry absent or expired and stores a fresh window.
C6_ResetTimeFrame ==
    \A k \in Keys :
        (k \in DOMAIN store' /\ EntryOf(store', k) # EntryOf(store, k)
            /\ (k \in DOMAIN store => store'[k].resetTime # store[k].resetTime))
        => /\ Check(k)
           /\ k \notin DOMAIN store \/ store[k].resetTime < now
           /\ store'[k] = [count |-> 1, resetTime |-> now + windowMs]

C6_ResetAtOnlyByFreshWindow ==
    /\ [](\A k \in DOMAIN store :
            k \in DOMAIN createdAt /\ store[k].resetTime >= createdAt[k])
    /\ [][C6_ResetTimeFrame]_vars

C6_Witness ==
    /\ last.op = "check"
    /\ ~last.created
    /\ last.allowed
    /\ now > createdAt[last.key]
    /\ last.pre[1].resetTime = store[last.key].resetTime
    /\ store[last.key].count = last.pre[1].count + 1

\* C7: a check made after the key's stored resetTime has passed is allowed
\* and starts a fresh window, whatever count the old window had reached.
C7_FreshWindowAfterReset ==
    (last.op = "check" /\ last.pre # <<>> /\ last.pre[1].resetTime < now) =>
        /\ last.allowed
        /\ last.remaining = limit - 1
        /\ last.resetTime = now + windowMs
        /\ store[last.key] = [count |-> 1, resetTime |-> now + windowMs]

C7_Witness ==
    /\ last.op = "check"
    /\ last.pre # <<>>
    /\ last.pre[1].resetTime < now
    /\ last.pre[1].count = limit
    /\ limit >= 2
    /\ store[last.key].count = 1

\* C11: the i-th allowed check of a window (i = 1 for the call that creates
\* the window) returns remaining = limit - i, a denied check returns
\* remaining = 0, and the returned remaining is never negative.
C11_RemainingIsLimitMinusI ==
    last.op = "check" =>
        /\ last.allowed => last.remaining = limit - gWin[last.key].allowed
        /\ ~last.allowed => last.remaining = 0
        /\ last.remaining >= 0

C11_Witness ==
    /\ last.op = "check"
    /\ last.allowed
    /\ ~last.created
    /\ limit >= 2
    /\ gWin[last.key].allowed = limit
    /\ last.remaining = 0

\* C14: cleanup run at time now removes exactly the entries whose
\* resetTime < now and leaves every other entry (key, count, resetTime) as
\* it was; after it the store holds no entry with resetTime < now.
C14_CleanupRemovesExactlyExpired ==
    [][Cleanup =>
        /\ DOMAIN store' = {k \in DOMAIN store : store[k].resetTime >= now}
        /\ \A k \in DOMAIN store' : store'[k] = store[k]
        /\ \A k \in DOMAIN store' : ~(store'[k].resetTime < now)
      ]_vars

C14_Witness ==
    /\ last.op = "cleanup"
    /\ \E k \in DOMAIN gWin : gWin[k].resetAt < now /\ k \notin DOMAIN store
    /\ \E k \in DOMAIN store : store[k].resetTime = now /\ store[k].count = 2

\* C15: with a fixed policy, the allowed checks of one key inside any time
\* span of length windowMs never exceed 2 * limit.  (allowedAt[k] holds the
\* allowed checks of k in the span of length windowMs that ends now.)
C15_BurstAtMostTwiceLimit ==
    \A k \in DOMAIN allowedAt :
        /\ \A i \in 1..Len(allowedAt[k]) :
                allowedAt[k][i] >= now - windowMs /\ allowedAt[k][i] <= now
        /\ Len(allowedAt[k]) <= 2 * limit

\* The burst across the boundary of two adjacent windows.
C15_Witness ==
    /\ last.op = "check" /\ last.allowed
    /\ limit >= 2
    /\ gWin[last.key].allowed = limit
    /\ Len(allowedAt[last.key]) > limit
    /\ allowedAt[last.key][1] < gWin[last.key].start

(***************************************************************************)
(* Claims about the withRateLimit wrapper, under SpecWrap.                 *)
(***************************************************************************)

\* C8 (as claimed): with wrapper calls of one key interleaved in any order,
\* the calls that reach the handler within one window never exceed
\* options.limit.
C8_AllowedWithinLimit ==
    \A k \in DOMAIN gWin : gWin[k].allowed <= limit

\* C8 (amended): unless rate limiting is skipped (NODE_ENV 'test' or
\* DISABLE_RATE_LIMIT 'true'), the calls that reach the handler within one
\* window never exceed the limit the wrapper passes to check: options.limit,
\* or max(3 * options.limit, 200) when NODE_ENV is 'development'.
C8_AllowedWithinEffectiveLimit ==
    \A k \in DOMAIN gWin :
        ~(env = "test" \/ disabled) =>
            gWin[k].allowed <=
                (IF env = "development" THEN Max(3 * limit, 200) ELSE limit)

C8_Witness ==
    /\ env = "production" /\ ~disabled
    /\ limit >= 2
    /\ wresp.status = 429
    /\ gWin[wresp.key].allowed = limit
    /\ BagCardinality(inflight) >= 2
    /\ \A c \in BagToSet(inflight) : c.key = wresp.key

\* The decision the wrapper is to take on a call of key k in this state.
C12_Denied(k) ==
    /\ ~(env = "test" \/ disabled)
    /\ k \in DOMAIN store
    /\ ~(store[k].resetTime < now)
    /\ store[k].count >= (IF env = "development" THEN Max(3 * limit, 200) ELSE limit)

\* C12: a wrapper call whose decision is denied returns the 429 at once and
\* does not invoke the handler; a call whose decision is allowed (or for
\* which rate limiting is skipped) invokes the handler exactly once; no
\* other step invokes a handler.
C12_HandlerOnceIffAllowed ==
    [][/\ \A k \in Keys :
            (k \in DOMAIN gWin' /\ EntryOf(gWin', k) # EntryOf(gWin, k)) =>
                IF C12_Denied(k)
                THEN inflight' = inflight /\ wresp'.status = 429 /\ wresp'.key = k
                ELSE /\ BagCardinality(inflight') = BagCardinality(inflight) + 1
                     /\ \E c \in BagToSet(inflight') :
                            c.key = k /\ inflight' = inflight (+) SetToBag({c})
                     /\ wresp'.status # 429
       /\ gWin' = gWin => BagCardinality(inflight') <= BagCardinality(inflight)
      ]_vars

C12_Witness ==
    /\ env = "production" /\ ~disabled
    /\ limit >= 2
    /\ wresp.status = 429
    /\ gWin[wresp.key].allowed = limit
    /\ gWin[wresp.key].calls = limit + 1
    /\ BagCardinality(inflight) = 1

\* Math.ceil(x / 1000) for the spans of the model.
C13_CeilSeconds(x) ==
    CHOOSE n \in -61..61 : 1000 * n >= x /\ 1000 * (n - 1) < x

\* C13 (as claimed): every 429 of the rate limit, from withRateLimit and from
\* the middleware, carries retryAfter = ceil((resetAt - now) / 1000), where
\* resetAt is the end of the window the key's counter was started in and now
\* is the time of the decision.
C13_RetryAfterFromWindowEnd ==
    /\ wresp.status = 429 =>
            wresp.retryAfter =
                C13_CeilSeconds(gWin[wresp.key].resetAt - wresp.at)
    /\ (resp.kind # "none" /\ resp.status = 429) =>
            resp.retryAfter =
                C13_CeilSeconds(createdAt[resp.key] + 60000 - now)

(***************************************************************************)
(* Claims about the middleware, under SpecGate.                            *)
(***************************************************************************)
IsApi(path) == StartsWith(path, <<"/api", "/">>)

IsProtected(path) ==
    \/ StartsWith(path, <<"/dashboard">>)
    \/ \E r \in {"admin", "sessions", "messages", "mood-entries"} :
        StartsWith(path, <<"/api", "/", r>>)
    \/ StartsWith(path, <<"/api", "/", "users", "/", "profile">>)

IsAdminMarked(path) ==
    \/ StartsWith(path, <<"/api", "/", "admin">>)
    \/ StartsWith(path, <<"/dashboard", "/", "admin">>)

HasSuspiciousValue(query) ==
    \E i \in 1..Len(query) :
        query[i] \in {"'a' OR 1=1", "../etc/passwd", "<script>alert(1)</script>"}

\* The key's counter stands above the limit after the request.
OverLimit(key) ==
    key \in DOMAIN rateLimitMap /\ rateLimitMap[key].count > 100

\* C3 (as claimed): a request whose query matches a suspicious pattern is
\* answered 400 without being counted by the rate limiter and without its
\* token being verified, whatever its path and token.
C3_ScreeningFirst ==
    (resp.kind # "none" /\ HasSuspiciousValue(resp.query)) =>
        /\ resp.status = 400
        /\ ~resp.counted
        /\ ~resp.tokenVerified

\* C3 (amended): the gate runs rate limiting (paths under /api/), then the
\* auth/role check (protected routes), then the query screening, and stops
\* at the first failure.  A request with a suspicious query never passes:
\* it is answered 429 when the rate limit is exceeded, else 401/403 or the
\* redirect of the auth gate, else 400; it is counted by the rate limiter
\* whenever its path is under /api/, and the 400 is sent only after the
\* token of a protected route was verified and accepted.
C3_RateThenAuthThenScreening ==
    resp.kind # "none" =>
        /\ resp.counted = IsApi(resp.path)
        /\ resp.status = 429 <=> (IsApi(resp.path) /\ OverLimit(resp.key))
        /\ resp.tokenVerified = (IsProtected(resp.path) /\ resp.status # 429)
        /\ resp.status = 400 =>
            /\ HasSuspiciousValue(resp.query)
            /\ IsProtected(resp.path) => resp.token.valid
            /\ IsAdminMarked(resp.path) => resp.token.role = "admin"
        /\ HasSuspiciousValue(resp.query) => resp.kind # "next"

C3_Witness ==
    /\ resp.status = 400
    /\ HasSuspiciousValue(resp.query)
    /\ resp.counted
    /\ resp.tokenVerified
    /\ rateLimitMap[resp.key].count >= 2

\* C9 (as claimed): a request to a protected route without a valid token is
\* answered 401 on an API route and redirected to /login on a page route.
C9_NoTokenRejected ==
    (resp.kind # "none" /\ IsProtected(resp.path) /\ ~resp.token.valid) =>
        IF IsApi(resp.path)
        THEN resp.kind = "json" /\ resp.status = 401
        ELSE resp.kind = "redirect" /\ resp.location = "/login"

\* C9 (amended): a request to a protected route without a valid token never
\* passes through: on a page route it is redirected to /login; on an API
\* route it is answered 401, unless the rate limiter has already answered
\* it 429 (the key's count is above 100).
C9_NoTokenRejectedUnlessRateLimited ==
    (resp.kind # "none" /\ IsProtected(resp.path) /\ ~resp.token.valid) =>
        /\ resp.kind # "next"
        /\ IF ~IsApi(resp.path)
           THEN resp.kind = "redirect" /\ resp.location = "/login"
           ELSE IF OverLimit(resp.key)
           THEN resp.kind = "json" /\ resp.status = 429
           ELSE resp.kind = "json" /\ resp.status = 401

C9_Witness ==
    /\ resp.kind = "json" /\ resp.status = 401
    /\ IsProtected(resp.path) /\ IsApi(resp.path)
    /\ ~resp.token.valid /\ resp.token.role = "admin"
    /\ rateLimitMap[resp.key].count = 100

\* C10 (as claimed): on an admin-marked route with a valid token, a role
\* other than "admin" is answered 403 (API) or redirected to /dashboard
\* (page), and the role "admin" passes through to the handler.
C10_AdminGate ==
    (resp.kind # "none" /\ IsAdminMarked(resp.path) /\ resp.token.valid) =>
        IF resp.token.role # "admin"
        THEN IF IsApi(resp.path)
             THEN resp.kind = "json" /\ resp.status = 403
             ELSE resp.kind = "redirect" /\ resp.location = "/dashboard"
        ELSE resp.kind = "next"

\* C10 (amended): on an admin-marked route with a valid token, unless the
\* rate limiter has already answered 429 (API routes): a role other than
\* "admin" is answered 403 (API) or redirected to /dashboard (page); the
\* role "admin" passes the auth gate and reaches the handler unless a query
\* value matches a suspicious pattern, which is answered 400.
C10_AdminGateInOrder ==
    (resp.kind # "none" /\ IsAdminMarked(resp.path) /\ resp.token.valid) =>
        IF IsApi(resp.path) /\ OverLimit(resp.key)
        THEN resp.kind = "json" /\ resp.status = 429
        ELSE IF resp.token.role # "admin"
        THEN IF IsApi(resp.path)
             THEN resp.kind = "json" /\ resp.status = 403
             ELSE resp.kind = "redirect" /\ resp.location = "/dashboard"
        ELSE IF HasSuspiciousValue(resp.query)
        THEN resp.kind = "json" /\ resp.status = 400
        ELSE resp.kind = "next"

C10_Witness ==
    /\ resp.kind = "json" /\ resp.status = 403
    /\ IsAdminMarked(resp.path) /\ IsApi(resp.path)
    /\ resp.token.valid /\ resp.token.role = "user"
    /\ ~HasSuspiciousValue(resp.query)

\* C25: no request to a path under an admin prefix passes the middleware
\* unless its token exists and has the role "admin": every path an admin
\* route matches is matched by a protected route too, so the role check is
\* never skipped.
C25_AdminPathNeedsAdminToken ==
    /\ \A p \in GatePaths \cup adminRoutes :
            (\E a \in adminRoutes : StartsWith(p, a))
                => \E r \in protectedRoutes : StartsWith(p, r)
    /\ (resp.kind = "next" /\ IsAdminMarked(resp.path)) =>
            /\ resp.tokenVerified
            /\ resp.token.valid
            /\ resp.token.role = "admin"

\* A request to a path under an admin prefix passed, with an admin's token.
C25_Witness ==
    /\ resp.kind = "next"
    /\ IsAdminMarked(resp.path)
    /\ resp.token.valid /\ resp.token.role = "admin"

(***************************************************************************)
(* Claims about the rate limit of the middleware over time, under SpecRate. *)
(***************************************************************************)

\* The requests key k has sent in the time span [t, t + 60000].
C16_SentInSpan(k, t) ==
    LET times == {u \in DOMAIN sentAt[k].at : t <= u /\ u <= t + 60000}
        sum[S \in SUBSET times] ==
            IF S = {} THEN 0
            ELSE LET u == CHOOSE x \in S : TRUE IN sentAt[k].at[u] + sum[S \ {u}]
    IN sum[times]

\* Key k has sent at most 100 requests in every 60-second span.
C16_AtMost100PerMinute(k) ==
    k \in DOMAIN sentAt =>
        \A t \in DOMAIN sentAt[k].at : C16_SentInSpan(k, t) <= 100

\* C16 (as claimed): a client key that sends at most 100 requests to /api/
\* paths in every 60-second span is never answered 429.
C16_HundredPerMinuteNever429 ==
    (resp.kind # "none" /\ C16_AtMost100PerMinute(resp.key)) => resp.status # 429

(***************************************************************************)
(* Claims about GET /api/health, under SpecHealth.                         *)
(***************************************************************************)

\* C17: the health endpoint's limiter admits at most 50 requests of a client
\* key within one 60-second window, counted from the request that created
\* the window, and answers every further request of the key inside the
\* window 429.
C17_HealthFiftyPerWindow ==
    /\ \A k \in DOMAIN hWin : hWin[k].admitted <= 50
    /\ (hresp.op \in {"GET", "await"} /\ hWin[hresp.key].calls > 50) =>
            hresp.status = 429
    /\ hresp.status = 429 => hWin[hresp.key].calls > 50

C17_Witness ==
    /\ hresp.op = "GET" /\ hresp.status = 429
    /\ hWin[hresp.key].calls = 51
    /\ hWin[hresp.key].admitted = 50
    /\ now - hWin[hresp.key].start = 59999

\* C18 (as claimed): every response of GET /api/health other than the 429
\* whose body reports the database as down has status 503, and status 200
\* comes only with a body that does not report the database as down, for
\* freshly computed and for cached responses.
C18_DatabaseDownIs503 ==
    (hresp.op \in {"GET", "done"} /\ hresp.status # 429) =>
        /\ (hresp.body.status = "unhealthy" /\ hresp.body.database = "down")
                => hresp.status = 503
        /\ hresp.status = 200 => hresp.body.database # "down"

\* C28: a freshly computed response of GET /api/health reports status
\* "healthy" and database "up" only when checkDatabaseHealth reported the
\* database as healthy; a result "unhealthy" or "degraded", or a timeout,
\* yields status "unhealthy" with database "down".
C28_HealthyOnlyWhenCheckHealthy ==
    hresp.op = "done" =>
        IF hresp.check = "healthy"
        THEN hresp.body = [status |-> "healthy", database |-> "up"]
        ELSE hresp.body = [status |-> "unhealthy", database |-> "down"]

(***************************************************************************)
(* Claims about the reset of the RateLimiter, under SpecReset.             *)
(***************************************************************************)

\* C19: after the reset (the POST outside production) the store is empty,
\* and for every key, whatever was counted before, the next check is
\* allowed and starts a fresh window with count = 1.
C19_ResetStartsAfresh ==
    /\ last.op = "reset200" => store = Empty
    /\ (last.op = "check" /\ gWin[last.key].calls = 1) =>
            /\ last.allowed
            /\ last.remaining = limit - 1
            /\ store[last.key] = [count |-> 1, resetTime |-> now + windowMs]

\* The key was at its limit in a window still open, and is allowed again at
\* the same instant, after the reset.
C19_Witness ==
    /\ last.op = "check"
    /\ limit >= 2
    /\ gWin[last.key].calls = 1
    /\ Len(allowedAt[last.key]) = limit + 1
    /\ \A i \in 1..(limit + 1) : allowedAt[last.key][i] = now
    /\ store[last.key].count = 1

(***************************************************************************)
(* Claims about the periodic sweeper, under SpecSweep.                     *)
(***************************************************************************)

\* The entry of k is past its reset time.
C20_Expired(k) == k \in DOMAIN store /\ store[k].resetTime < now

\* C20: while the sweeper's timer is active, every entry whose resetTime has
\* passed and that no further request replaces is eventually deleted, and
\* no entry is still in the store after two runs of the sweeper at or after
\* its resetTime.
C20_SweptBySecondTick ==
    /\ [](\A k \in DOMAIN store :
            Cardinality({t \in cleanupInterval.ran : t >= store[k].resetTime}) <= 1)
    /\ \A k \in Keys :
            (C20_Expired(k) /\ cleanupInterval.active)
                ~> (~C20_Expired(k) \/ ~cleanupInterval.active)

\* An entry survived the run of the sweeper at its resetTime and was deleted
\* by the next run.
C20_Witness ==
    /\ cleanupInterval.active
    /\ Cardinality(cleanupInterval.ran) = 2
    /\ \E k \in DOMAIN gWin :
            /\ gWin[k].resetAt \in cleanupInterval.ran
            /\ k \notin DOMAIN store

(***************************************************************************)
(* The same timed check calls on two stores: `store`, which the sweeper    *)
(* visits at arbitrary points, and `noSweep`, on which cleanup never runs. *)
(***************************************************************************)
InitTwin == Init

\* One call rateLimiter.check(k, limit, windowMs), made in both runs.
TwinCheck(k) ==
    /\ LET r == check(store, k, limit, windowMs, now)
           q == check(noSweep, k, limit, windowMs, now) IN
        /\ store' = r.store
        /\ noSweep' = q.store
        /\ last' = [op |-> "check", key |-> k, allowed |-> r.result.allowed,
                    remaining |-> r.result.remaining,
                    resetTime |-> r.result.resetTime,
                    created |-> r.created, pre |-> EntryOf(store, k)]
        /\ lastNoSweep' = [result |-> q.result, pre |-> EntryOf(noSweep, k)]
    /\ UNCHANGED <<now, limit, windowMs, gWin, createdAt, allowedAt, wrapVars,
                   gateVars, healthVars, cleanupInterval, routeVars, acctVars>>

NextTwin ==
    \/ \E k \in Keys : TwinCheck(k)
    \/ Cleanup
    \/ Tick

SpecTwin == InitTwin /\ [][NextTwin]_vars

\* C24: the sweeper never changes a decision: every check returns the same
\* allowed, remaining and resetTime as the same call returns in the run of
\* the same timed calls on which cleanup never ran.
C24_SweepKeepsDecisions ==
    last.op = "check" =>
        lastNoSweep.result = [allowed |-> last.allowed,
                              remaining |-> last.remaining,
                              resetTime |-> last.resetTime]

\* A check of a key whose entry the sweeper had deleted, and which the run
\* without the sweeper still held.
C24_Witness ==
    /\ last.op = "check"
    /\ last.pre = <<>>
    /\ lastNoSweep.pre # <<>>

(***************************************************************************)
(* Two routes wrapped by withRateLimit with different options.  Both       *)
(* wrappers call the one global rateLimiter, whose store is keyed by the   *)
(* client identifier alone.  `alone` holds, per route, the store that the  *)
(* calls made to that route would have produced by themselves.             *)
(***************************************************************************)
MaxRouteTime == 3

Routes == {"strict", "lax"}

\* The options the two routes were wrapped with.
Policy(r) == IF r = "strict" THEN [limit |-> 1, windowMs |-> 1]
             ELSE [limit |-> MaxLimit, windowMs |-> MaxWindow]

StoreOf(a, r) == IF r \in DOMAIN a THEN a[r] ELSE Empty

InitRoutes ==
    /\ Init
    /\ limit = 1
    /\ windowMs = 1

\* The wrapper of route r is called by client k, up to the result of check:
\* the 429 response or the call of the handler follows from result.allowed.
RouteCall(r, k) ==
    /\ ~RateLimitSkipped
    /\ env # "development"
    /\ LET p == Policy(r)
           sh == check(store, k, p.limit, p.windowMs, now)
           al == check(StoreOf(alone, r), k, p.limit, p.windowMs, now) IN
        /\ store' = sh.store
        /\ alone' = Put(alone, r, al.store)
        /\ rlast' = [route |-> r, key |-> k, shared |-> sh.result,
                     alone |-> al.result]
    /\ last' = NoLast
    /\ UNCHANGED <<now, limit, windowMs, gWin, createdAt, allowedAt, wrapVars,
                   gateVars, healthVars, cleanupInterval, twinVars, acctVars>>

\* The clock advances.
RouteTick ==
    /\ now < MaxRouteTime
    /\ now' = now + 1
    /\ UNCHANGED <<store, limit, windowMs, last, gWin, createdAt, allowedAt,
                   wrapVars, gateVars, healthVars, cleanupInterval, twinVars,
                   routeVars, acctVars>>

NextRoutes ==
    \/ \E r \in Routes, k \in Keys : RouteCall(r, k)
    \/ RouteTick

SpecRoutes == InitRoutes /\ [][NextRoutes]_vars

\* C26: the quotas of different wrapped routes do not interfere: what a
\* route's wrapper decides for a client (allowed, remaining, resetTime) is
\* what it would decide had the client called that route alone.
C26_RoutesDoNotInterfere ==
    rlast.route # "" => rlast.shared = rlast.alone

(***************************************************************************)
(* POST register (therapists/route.ts) and POST /api/admin, on the users   *)
(* and therapists collections of the database.                             *)
(***************************************************************************)
MAX_REGISTRATION_ATTEMPTS == 3
REGISTRATION_WINDOW == 60 * 60 * 1000
REGISTRATION_RETRY_AFTER == 3600

MaxRegTime == 3600001
MaxRegCalls == 4
MaxRegPending == 2
MaxAccounts == 2

\* String.prototype.toLowerCase, on the sample strings.
toLowerCase(str) == IF str = "Ada@x.ng" THEN "ada@x.ng" ELSE str

\* An ObjectId is written as 24 hexadecimal digits of either case; the
\* samples stand for such strings.  new ObjectId(hex) is the 12 bytes the
\* digits denote, written here with its lower-case digits (toHexString).
ObjectId(hex) ==
    IF hex = "64A1" THEN "64a1" ELSE hex

\* The ObjectIds the driver generates for inserted documents, in order.
IdSeq == <<"64b2", "64c3", "64d4", "64e5">>

\* The admin's account, which registration did not create.
ADMIN_ID == "64a1"
AdminAccount == [email |-> "root@x.ng", role |-> "admin", isVerified |-> TRUE]

checkRegistrationRateLimit_ge(m, ip, t) ==
    IF ip \notin DOMAIN m
    THEN [map |-> Put(m, ip, [count |-> 1, lastAttempt |-> t]), limited |-> FALSE]
    ELSE IF t - m[ip].lastAttempt >= REGISTRATION_WINDOW
    THEN [map |-> Put(m, ip, [count |-> 1, lastAttempt |-> t]), limited |-> FALSE]
    ELSE [map |-> [m EXCEPT ![ip].count = @ + 1],
          limited |-> m[ip].count + 1 > MAX_REGISTRATION_ATTEMPTS]

\* checkRegistrationRateLimit(ip) at time t on map m: the map it leaves and
\* its answer.
checkRegistrationRateLimit(m, ip, t) ==
    IF ip \notin DOMAIN m
    THEN [map |-> Put(m, ip, [count |-> 1, lastAttempt |-> t]), limited |-> FALSE]
    ELSE IF t - m[ip].lastAttempt > REGISTRATION_WINDOW
    THEN [map |-> Put(m, ip, [count |-> 1, lastAttempt |-> t]), limited |-> FALSE]
    ELSE [map |-> [m EXCEPT ![ip].count = @ + 1],
          limited |-> m[ip].count + 1 > MAX_REGISTRATION_ATTEMPTS]

\* x-forwarded-for || x-real-ip || 'anonymous' ("" for an absent header).
clientIP(h) ==
    IF h.forwardedFor # "" THEN h.forwardedFor
    ELSE IF h.realIp # "" THEN h.realIp
    ELSE "anonymous"

RegHeaders ==
    { [forwardedFor |-> "1.2.3.4", realIp |-> "10.0.0.2"],
      [forwardedFor |-> "", realIp |-> ""] }

\* The bodies sent: valid says whether registerSchema accepts the body.  The
\* sample emails hold nothing that trim() or validator.escape would change.
RegRequests ==
    [headers : RegHeaders, email : {"Ada@x.ng", "bo@x.ng"},
     userType : {"user", "therapist"}, valid : BOOLEAN]

\* The requests sent while the clock runs: two clients, one email.
RegTimedRequests ==
    {req \in RegRequests : req.email = "Ada@x.ng" /\ req.userType = "user"}

userData_verified(email, userType) ==
    IF userType = "therapist"
    THEN [email |-> toLowerCase(email), role |-> userType,
          isVerified |-> TRUE, verified |-> FALSE]
    ELSE [email |-> toLowerCase(email), role |-> userType,
          isVerified |-> TRUE]

\* The document POST register inserts.
userData(email, userType) ==
    IF userType = "therapist"
    THEN [email |-> toLowerCase(email), role |-> userType,
          isVerified |-> userType = "user", verified |-> FALSE]
    ELSE [email |-> toLowerCase(email), role |-> userType,
          isVerified |-> userType = "user"]

\* findOne({email: {$regex: new RegExp(`^${email}$`, 'i')}}) finds a document
\* of coll: on the sample emails the expression matches the strings equal to
\* email up to case.
findOneByEmail(coll, email) ==
    \E id \in DOMAIN coll : toLowerCase(coll[id].email) = toLowerCase(email)

\* The unique index on users.email (scripts/db-setup.js) rejects the insert.
DuplicateKey(coll, doc) == \E id \in DOMAIN coll : coll[id].email = doc.email

\* An account of either collection holds the email.
EmailTaken(email) ==
    \/ \E id \in DOMAIN users : users[id].email = toLowerCase(email)
    \/ \E id \in DOMAIN therapists : therapists[id].email = toLowerCase(email)

\* History: the one-hour window of ip k, opened by the first attempt made
\* when k has no window or more than one hour after its window began.
InRegWindow(g, k, t) == k \in DOMAIN g /\ t - g[k].start <= REGISTRATION_WINDOW

ObserveReg(g, k, t, passed) ==
    IF InRegWindow(g, k, t)
    THEN [g EXCEPT ![k].attempts = @ + 1,
                   ![k].passed = @ + (IF passed THEN 1 ELSE 0)]
    ELSE Put(g, k, [start |-> t, attempts |-> 1,
                    passed |-> IF passed THEN 1 ELSE 0])

RegResponse(op, k, status, c) ==
    [op |-> op, key |-> k, status |-> status, retryAfter |-> -1,
     email |-> c.email, userType |-> c.userType, id |-> "", user |-> <<>>,
     existed |-> EmailTaken(c.email)]

InitAcct ==
    /\ now = 0
    /\ store = Empty
    /\ limit = 1
    /\ windowMs = 1
    /\ last = NoLast
    /\ gWin = Empty
    /\ createdAt = Empty
    /\ allowedAt = Empty
    /\ env = "production"
    /\ disabled = FALSE
    /\ inflight = EmptyBag
    /\ wresp = NoResponse
    /\ rateLimitMap = Empty
    /\ resp = NoResp
    /\ sentAt = Empty
    /\ HealthIdle
    /\ CallsIdle
    /\ registrationAttempts = Empty
    /\ users = Put(Empty, ADMIN_ID, AdminAccount)
    /\ therapists = Empty
    /\ regPending = EmptyBag
    /\ rresp = NoRegResponse
    /\ regWin = Empty
    /\ verifiedOk = {}
    /\ aresp = NoAdminResponse
    /\ adminRateLimit = Empty
    /\ oidCounter = 0

\* POST register is called: the rate limit, the parsing and validation of
\* the body, up to the await of the lookup of the email.
RegisterPost(req) ==
    LET k == clientIP(req.headers)
        rl == checkRegistrationRateLimit(registrationAttempts, k, now)
        c == [key |-> k, email |-> toLowerCase(req.email),
              userType |-> req.userType, pc |-> "findOne"]
    IN  /\ InRegWindow(regWin, k, now) => regWin[k].attempts < MaxRegCalls
        /\ registrationAttempts' = rl.map
        /\ regWin' = ObserveReg(regWin, k, now, ~rl.limited)
        /\ IF rl.limited
           THEN /\ rresp' = [RegResponse("POST", k, 429, c)
                                EXCEPT !.retryAfter = REGISTRATION_RETRY_AFTER]
                /\ UNCHANGED regPending
           ELSE IF ~req.valid
           THEN /\ rresp' = RegResponse("POST", k, 400, c)
                /\ UNCHANGED regPending
           ELSE /\ BagCardinality(regPending) < MaxRegPending
                /\ oidCounter + BagCardinality(regPending) < MaxAccounts
                /\ regPending' = regPending (+) SetToBag({c})
                /\ rresp' = RegResponse("findOne", k, 0, c)
        /\ aresp' = NoAdminResponse
        /\ UNCHANGED <<limiterVars, wrapVars, gateVars, healthVars,
                       cleanupInterval, twinVars, routeVars, users, therapists,
                       verifiedOk, adminRateLimit, oidCounter>>

\* The lookup db.collection('users').findOne resolves for the suspended call
\* c: 409 when it found a document, else on to the hashing and the insert.
RegisterFindOne(c) ==
    /\ BagIn(c, regPending)
    /\ c.pc = "findOne"
    /\ IF findOneByEmail(users, c.email)
       THEN /\ regPending' = regPending (-) SetToBag({c})
            /\ rresp' = RegResponse("done", c.key, 409, c)
       ELSE /\ regPending' = (regPending (-) SetToBag({c}))
                                (+) SetToBag({[c EXCEPT !.pc = "insertOne"]})
            /\ rresp' = RegResponse("insertOne", c.key, 0, c)
    /\ aresp' = NoAdminResponse
    /\ UNCHANGED <<limiterVars, wrapVars, gateVars, healthVars, cleanupInterval,
                   twinVars, routeVars, registrationAttempts, users, therapists,
                   regWin, verifiedOk, adminRateLimit, oidCounter>>

\* db.collection(collection).insertOne(userData) runs for the suspended call
\* c: 201, or the 500 of the catch when the unique index rejects the insert.
RegisterInsertOne(c) ==
    /\ BagIn(c, regPending)
    /\ c.pc = "insertOne"
    /\ oidCounter < Len(IdSeq)
    /\ regPending' = regPending (-) SetToBag({c})
    /\ LET doc == userData(c.email, c.userType)
           id == IdSeq[oidCounter + 1] IN
        IF c.userType = "user" /\ DuplicateKey(users, doc)
        THEN /\ rresp' = RegResponse("done", c.key, 500, c)
             /\ UNCHANGED <<users, therapists, oidCounter>>
        ELSE /\ rresp' = [RegResponse("done", c.key, 201, c)
                            EXCEPT !.id = id, !.user = <<doc>>]
             /\ oidCounter' = oidCounter + 1
             /\ IF c.userType = "therapist"
                THEN therapists' = Put(therapists, id, doc) /\ UNCHANGED users
                ELSE users' = Put(users, id, doc) /\ UNCHANGED therapists
    /\ aresp' = NoAdminResponse
    /\ UNCHANGED <<limiterVars, wrapVars, gateVars, healthVars, cleanupInterval,
                   twinVars, routeVars, registrationAttempts, regWin,
                   verifiedOk, adminRateLimit>>

RegInstants ==
    {t \in {0, REGISTRATION_WINDOW, REGISTRATION_WINDOW + 1,
            REGISTRATION_WINDOW + 2} : t <= MaxRegTime}

\* The clock advances to instant t.
RegClock(t) ==
    /\ t > now
    /\ now' = t
    /\ rresp' = NoRegResponse
    /\ aresp' = NoAdminResponse
    /\ UNCHANGED <<store, limit, windowMs, last, gWin, createdAt, allowedAt,
                   wrapVars, gateVars, healthVars, cleanupInterval, twinVars,
                   routeVars, registrationAttempts, users, therapists,
                   regPending, regWin, verifiedOk, adminRateLimit, oidCounter>>

NextReg ==
    \/ \E req \in RegTimedRequests : RegisterPost(req)
    \/ \E c \in BagToSet(regPending) : RegisterFindOne(c)
    \/ \E c \in BagToSet(regPending) : RegisterInsertOne(c)
    \/ \E t \in RegInstants : RegClock(t)

SpecReg == InitAcct /\ [][NextReg]_vars

(***************************************************************************)
(* POST /api/admin and GET /api/admin, with registration, on the same      *)
(* collections.                                                            *)
(***************************************************************************)
ADMIN_RATE_LIMIT == 20
ADMIN_RATE_WINDOW == 60 * 1000

MaxAdminCalls == 3

\* checkAdminRateLimit(userId) at time t on map m.
checkAdminRateLimit(m, userId, t) ==
    IF userId \notin DOMAIN m
    THEN [map |-> Put(m, userId, [count |-> 1, lastRequest |-> t]), limited |-> FALSE]
    ELSE IF t - m[userId].lastRequest > ADMIN_RATE_WINDOW
    THEN [map |-> Put(m, userId, [count |-> 1, lastRequest |-> t]), limited |-> FALSE]
    ELSE [map |-> [m EXCEPT ![userId].count = @ + 1],
          limited |-> m[userId].count + 1 > ADMIN_RATE_LIMIT]

\* What getToken resolves to: <<>> for null, else <<token>>.
AdminTokens ==
    { <<>>,
      <<[role |-> "admin", sub |-> ADMIN_ID]>>,
      <<[role |-> "user", sub |-> "64b2"]>> }

\* userId as the body gives it: "" when absent, digits of either case, or a
\* string that is no ObjectId.
AdminBodies ==
    [action : {"verify_therapist"}, userId : {"", "64b2", "me"}]
        \cup [action : {"delete_user"}, userId : {"", "64a1", "64A1", "64b2"}]
        \cup [action : {"list_users"}, userId : {""}]

\* adminActionSchema.safeParse(body).success
adminActionSchema(body) ==
    body.userId \in {"", "64a1", "64A1", "64b2"}

Without(coll, id) == [x \in DOMAIN coll \ {id} |-> coll[x]]

\* The switch of POST /api/admin for a token with role 'admin' and a body
\* the schema accepts: the collections it leaves, the _id a verification
\* matched, and the status of the response.
adminAction(us, th, sub, body) ==
    LET same == [users |-> us, therapists |-> th, matched |-> {}] IN
    IF body.action = "verify_therapist"
    THEN IF body.userId = ""
         THEN same @@ [status |-> 400]
         ELSE IF ObjectId(body.userId) \in DOMAIN th
         THEN [users |-> us,
               therapists |-> [th EXCEPT ![ObjectId(body.userId)].isVerified = TRUE],
               matched |-> {ObjectId(body.userId)}, status |-> 200]
         ELSE same @@ [status |-> 404]
    ELSE IF body.action = "delete_user"
    THEN IF body.userId = ""
         THEN same @@ [status |-> 400]
         ELSE IF body.userId = sub
         THEN same @@ [status |-> 400]
         ELSE IF ObjectId(body.userId) \in DOMAIN us
         THEN [users |-> Without(us, ObjectId(body.userId)), therapists |-> th,
               matched |-> {}, status |-> 200]
         ELSE same @@ [status |-> 404]
    ELSE same @@ [status |-> 400]

\* usersKept: the request left the users collection as it was.
AdminResponse(status, token, body, usersLeft) ==
    [status |-> status, action |-> body.action, userId |-> body.userId,
     sub |-> IF token = <<>> THEN "" ELSE token[1].sub,
     role |-> IF token = <<>> THEN "" ELSE token[1].role,
     usersKept |-> usersLeft = users]

\* POST /api/admin with the token and the body of the request.
AdminPost(token, body) ==
    /\ rresp' = NoRegResponse
    /\ IF token = <<>> \/ token[1].role # "admin"
       THEN /\ aresp' = AdminResponse(403, token, body, users)
            /\ UNCHANGED <<users, therapists, verifiedOk, adminRateLimit>>
       ELSE LET rl == checkAdminRateLimit(adminRateLimit, token[1].sub, now) IN
            /\ token[1].sub \in DOMAIN adminRateLimit
                    => adminRateLimit[token[1].sub].count < MaxAdminCalls
            /\ adminRateLimit' = rl.map
            /\ IF rl.limited
               THEN /\ aresp' = AdminResponse(429, token, body, users)
                    /\ UNCHANGED <<users, therapists, verifiedOk>>
               ELSE IF ~adminActionSchema(body)
               THEN /\ aresp' = AdminResponse(400, token, body, users)
                    /\ UNCHANGED <<users, therapists, verifiedOk>>
               ELSE LET r == adminAction(users, therapists, token[1].sub, body) IN
                    /\ users' = r.users
                    /\ therapists' = r.therapists
                    /\ verifiedOk' = verifiedOk \cup r.matched
                    /\ aresp' = AdminResponse(r.status, token, body, r.users)
    /\ UNCHANGED <<limiterVars, wrapVars, gateVars, healthVars, cleanupInterval,
                   twinVars, routeVars, registrationAttempts, regPending,
                   regWin, oidCounter>>

\* GET /api/admin: it reads the collections and counts against the limit.
AdminGet(token) ==
    /\ rresp' = NoRegResponse
    /\ IF token = <<>> \/ token[1].role # "admin"
       THEN /\ aresp' = AdminResponse(403, token, [action |-> "GET", userId |-> ""], users)
            /\ UNCHANGED adminRateLimit
       ELSE LET rl == checkAdminRateLimit(adminRateLimit, token[1].sub, now) IN
            /\ token[1].sub \in DOMAIN adminRateLimit
                    => adminRateLimit[token[1].sub].count < MaxAdminCalls
            /\ adminRateLimit' = rl.map
            /\ aresp' = AdminResponse(IF rl.limited THEN 429 ELSE 200, token,
                                      [action |-> "GET", userId |-> ""], users)
    /\ UNCHANGED <<limiterVars, wrapVars, gateVars, healthVars, cleanupInterval,
                   twinVars, routeVars, registrationAttempts, users, therapists,
                   regPending, regWin, verifiedOk, oidCounter>>

\* The requests sent to POST register next to the admin's: one client and
\* one email.
RegAcctRequests ==
    {req \in RegRequests :
        req.headers.forwardedFor # "" /\ req.valid /\ req.email = "bo@x.ng"}

NextAcct ==
    \/ \E req \in RegAcctRequests : RegisterPost(req)
    \/ \E c \in BagToSet(regPending) : RegisterFindOne(c)
    \/ \E c \in BagToSet(regPending) : RegisterInsertOne(c)
    \/ \E token \in AdminTokens, body \in AdminBodies : AdminPost(token, body)
    \/ \E token \in AdminTokens : AdminGet(token)

SpecAcct == InitAcct /\ [][NextAcct]_vars

\* Registration alone, with every request body and no clock: the calls
\* interleave at their database awaits.
NextJoin ==
    \/ \E req \in RegRequests : RegisterPost(req)
    \/ \E c \in BagToSet(regPending) : RegisterFindOne(c)
    \/ \E c \in BagToSet(regPending) : RegisterInsertOne(c)

SpecJoin == InitAcct /\ [][NextJoin]_vars

(***************************************************************************)
(* Claims about the rate limit of registration, under SpecReg.             *)
(***************************************************************************)

\* C21: of the registration attempts a client key makes within one hour of
\* the first attempt of its window, at most 3 pass checkRegistrationRateLimit;
\* the 4th and every later attempt of that hour is answered 429 with
\* retryAfter 3600 and creates no account, and the first attempt made more
\* than one hour after the window began is admitted again.
C21_ThreeAttemptsPerHour ==
    /\ [](\A k \in DOMAIN regWin : regWin[k].passed <= 3)
    /\ [](rresp.op \in {"POST", "findOne"} =>
            IF regWin[rresp.key].attempts > 3
            THEN rresp.status = 429 /\ rresp.retryAfter = 3600
            ELSE rresp.status # 429)
    /\ [][rresp'.status = 429 =>
            /\ users' = users
            /\ therapists' = therapists
            /\ regPending' = regPending]_vars

\* The 4th attempt of a window, made exactly one hour after the first, is
\* answered 429.
C21_Witness ==
    /\ rresp.op = "POST" /\ rresp.status = 429
    /\ regWin[rresp.key].attempts = 4
    /\ regWin[rresp.key].passed = 3
    /\ now - regWin[rresp.key].start = 3600000

(***************************************************************************)
(* Claims about the accounts, under SpecAcct.                              *)
(***************************************************************************)

C23_AdminNeverDeletesSelf ==
    (/\ aresp.action = "delete_user"
     /\ aresp.role = "admin"
     /\ aresp.status # 429
     /\ adminActionSchema([action |-> aresp.action, userId |-> aresp.userId])
     /\ aresp.userId # ""
     /\ ObjectId(aresp.userId) = ObjectId(aresp.sub))
        => /\ aresp.status = 400
           /\ aresp.usersKept

\* Two accounts hold the same email.
SameEmailTwice ==
    \/ \E i, j \in DOMAIN users : i # j /\ users[i].email = users[j].email
    \/ \E i, j \in DOMAIN therapists :
            i # j /\ therapists[i].email = therapists[j].email
    \/ \E i \in DOMAIN users, j \in DOMAIN therapists :
            users[i].email = therapists[j].email

\* C27: registration never creates two accounts with the same email, for
\* any interleaving of the requests: a request whose email belongs to an
\* existing account is answered 409 and inserts nothing.
C27_OneAccountPerEmail ==
    /\ ~SameEmailTwice
    /\ (rresp.op = "done" /\ rresp.existed) =>
            rresp.status = 409 /\ rresp.id = ""

====
